---- MODULE Spec2Model ----
(***************************************************************************)
(* Model of python_backend/whisper_server.py: the WhisperSTT model cache   *)
(* (_load_model), the decoding options chosen by                           *)
(* WhisperSTT.transcribe_audio, and the /transcribe and /batch-transcribe  *)
(* handlers with their temporary files.                                    *)
(*                                                                         *)
(* Real-valued options are held in tenths (0.3 is 3, 2.4 is 24, -1.2 is    *)
(* -12).  A loaded model object is a positive integer (its identity), None *)
(* is 0.  A temp file is a pair <<client, k>>.                             *)
(***************************************************************************)
EXTENDS Integers, Sequences, FiniteSets, TLC

\* ------------------------------------------------------------------ bounds
\* Environment faults (raised exceptions, failed loads, failed deletions,
\* transcriptions returning None) allowed in one behaviour of the handlers.
MaxFaults == 2
\* Concurrent clients of SpecConc.
NumClients == 2
\* Files in a batch a client of SpecConc uploads.
MaxConcFiles == 1
\* Environment faults in one behaviour of SpecConc.
MaxConcFaults == 1
\* _load_model invocations in one behaviour of SpecLoad.
MaxCalls == 3

\* ------------------------------------------------------- program constants
\* len(audio_files) > 10
MaxBatch == 10
\* 25 * 1024 * 1024
SizeLimit == 25 * 1024 * 1024

None == 0

\* keys of self.models
ModelNames ==
    {"tiny", "tiny.en", "base", "base.en", "small", "small.en",
     "medium", "medium.en", "large", "large-v1", "large-v2", "large-v3"}

\* a model_size form value that is no key of self.models
UnknownModel == "bogus"

AnyModel == ModelNames \cup {UnknownModel}

\* fallback_models with its first two names exchanged
FallbackModelsSwapped == <<"tiny", "base", "small">>

\* fallback_models
fallback_models == <<"base", "tiny", "small">>

\* keys of self.supported_languages
supported_languages == {"en", "id", "ar", "ms", "zh", "ja", "ko", "auto"}

\* what the model's language detection may answer (a supported one, or not)
DetectedLanguages == {"en", "id", "ar", "fr"}

\* language arguments of WhisperSTT.transcribe_audio: None is "None"
LanguageArgs == (supported_languages \cup {"None", "fr"})

VARIABLES
    models,         \* self.models: model name -> model object or None
    current_model,  \* self.current_model
    model_size,     \* self.model_size
    loadArg,        \* argument of the most recent _load_model call (SpecLoad)
    loadCalls,      \* whisper.load_model calls it made: <<name, succeeded>>
    ncalls,         \* _load_model calls made so far (SpecLoad)
    call,           \* one WhisperSTT.transcribe_audio option selection (SpecOptions)
    phase,          \* "import" until whisper_stt = WhisperSTT() has run, then "serving"
    workload,       \* what the clients send and how many faults the environment has
    req,            \* per client: its request, the handler's locals and its response
    fs,             \* the temp files that exist
    faults          \* environment faults so far

sttVars == <<models, current_model, model_size, loadArg, loadCalls>>
srvVars == <<phase, workload, req, fs, faults>>
vars == <<models, current_model, model_size, loadArg, loadCalls, ncalls, call,
          phase, workload, req, fs, faults>>

\* ------------------------------------------------------------ WhisperSTT
Range(f) == {f[x] : x \in DOMAIN f}

\* A new object is distinct from every object still referenced.
NewObject(ms, cur) ==
    CHOOSE n \in 1..(Cardinality(ModelNames) + 2) :
        /\ n \notin (Range(ms) \cup {cur})
        /\ \A k \in 1..(n - 1) : k \in (Range(ms) \cup {cur})

\* __init__: every model None, no current model, model_size 'base'
InitialSTT ==
    [models |-> [m \in ModelNames |-> None],
     current_model |-> None,
     model_size |-> "base",
     calls |-> <<>>]

\* The for loop over fallback_models of _load_model, from position k on:
\* the first fallback other than the requested name whose load succeeds is
\* stored in self.models and becomes model_size; a failing one is skipped.
RECURSIVE TryFallbacks(_, _, _, _, _, _)
TryFallbacks(ms, cur, requested, ok, k, calls) ==
    IF k > Len(fallback_models)
    THEN [models |-> ms, model_size |-> requested, calls |-> calls]
    ELSE LET fallback == fallback_models[k] IN
         IF fallback = requested
         THEN TryFallbacks(ms, cur, requested, ok, k + 1, calls)
         ELSE IF ok[fallback]
              THEN [models |-> [ms EXCEPT ![fallback] = NewObject(ms, cur)],
                    model_size |-> fallback,
                    calls |-> Append(calls, <<fallback, TRUE>>)]
              ELSE TryFallbacks(ms, cur, requested, ok, k + 1,
                                Append(calls, <<fallback, FALSE>>))

\* _load_model(requested) up to its last two assignments: the name looked up
\* (an unknown one is 'base'), the load when self.models[name] is None, and
\* the fallbacks when that load fails.
LoadOrFallback(s, requested, ok) ==
    LET name == IF requested \notin ModelNames THEN "base" ELSE requested IN
    IF s.models[name] # None
    THEN [models |-> s.models, model_size |-> name, calls |-> <<>>]
    ELSE IF ok[name]
         THEN [models |-> [s.models EXCEPT ![name] = NewObject(s.models, s.current_model)],
               model_size |-> name,
               calls |-> <<<<name, TRUE>>>>]
         ELSE TryFallbacks(s.models, s.current_model, name, ok, 1, <<<<name, FALSE>>>>)

\* A _load_model that sets current_model only when it loaded something.
LoadModelKeepsCurrent(s, requested, ok) ==
    LET f == LoadOrFallback(s, requested, ok) IN
    [models |-> f.models,
     current_model |-> IF f.calls = <<>> THEN s.current_model ELSE f.models[f.model_size],
     model_size |-> f.model_size,
     calls |-> f.calls]

\* _load_model(requested) on the WhisperSTT state s; ok[name] says whether
\* whisper.load_model(name) succeeds during this call.  It ends with
\* self.current_model = self.models[model_size]; self.model_size = model_size.
_load_model(s, requested, ok) ==
    LET f == LoadOrFallback(s, requested, ok) IN
    [models |-> f.models,
     current_model |-> f.models[f.model_size],
     model_size |-> f.model_size,
     calls |-> f.calls]

\* The names whisper.load_model may be called with by _load_model(requested).
LoaderNames(requested) ==
    {IF requested \notin ModelNames THEN "base" ELSE requested}
        \cup {fallback_models[k] : k \in 1..Len(fallback_models)}

\* The outcomes of whisper.load_model during one _load_model(requested) call
\* with at most `left` failing loads: ok[name] for every name it may load.
LoadOutcomes(requested, left) ==
    {ok \in [LoaderNames(requested) -> BOOLEAN] :
        Cardinality({n \in LoaderNames(requested) : ~ok[n]}) <= left}

Failures(calls) == Cardinality({k \in 1..Len(calls) : ~calls[k][2]})

STT == [models |-> models, current_model |-> current_model, model_size |-> model_size]

\* ------------------------------------------------- decoding options
LargeModels == {"large", "large-v1", "large-v2", "large-v3"}
MediumModels == {"medium", "medium.en"}

\* The options dict of the model tier.
TierOptions(m) ==
    IF m \in LargeModels
    THEN [beam_size |-> 5, best_of |-> 5, patience |-> 20,
          compression_ratio_threshold |-> 24, logprob_threshold |-> -10,
          no_speech_threshold |-> 3]
    ELSE IF m \in MediumModels
    THEN [beam_size |-> 3, best_of |-> 3, patience |-> 15,
          compression_ratio_threshold |-> 24, logprob_threshold |-> -10,
          no_speech_threshold |-> 4]
    ELSE [beam_size |-> 1, best_of |-> 1, patience |-> 10,
          compression_ratio_threshold |-> 24, logprob_threshold |-> -10,
          no_speech_threshold |-> 5]

\* The language-specific adjustments, applied to the tier's options.
LanguageAdjust(options, language) ==
    IF language = "ar"
    THEN [options EXCEPT !.no_speech_threshold = 2,
                         !.compression_ratio_threshold = 30,
                         !.logprob_threshold = -12]
    ELSE IF language = "id"
    THEN [options EXCEPT !.no_speech_threshold = 3,
                         !.compression_ratio_threshold = 28]
    ELSE options

\* language is None or 'auto': the detected language is used.
EffectiveLanguage(language, detected) ==
    IF language = "None" \/ language = "auto" THEN detected ELSE language

\* Options in which the model tier's no_speech_threshold is kept.
OptionsTierWins(m, language) ==
    [LanguageAdjust(TierOptions(m), language)
        EXCEPT !.no_speech_threshold = TierOptions(m).no_speech_threshold]

\* The options passed to current_model.transcribe: the tier's, then the
\* language's adjustments.
Options(m, language) == LanguageAdjust(TierOptions(m), language)

NoCall ==
    [model_size |-> "base", language |-> "None", detected |-> "en", done |-> FALSE,
     effective |-> "None", options |-> TierOptions("base")]

\* ------------------------------------------------------------- requests
Clients == 1..NumClients

\* model_size form values the clients send
ReqModels == {"base", "tiny", "large-v3", UnknownModel}

\* len(content) of an upload
Sizes == {1, SizeLimit - 1, SizeLimit, SizeLimit + 1}

\* the form values and upload sizes of the concurrent clients
ConcModels == {"tiny", "large-v3"}
ConcSizes == {SizeLimit - 1}

NoResp == [status |-> 0, success |-> FALSE, error |-> "", result |-> {}]
NoTx == [m |-> "", obj |-> None, mobj |-> None]
NoSummary == [total |-> 0, successful |-> 0, failed |-> 0]

\* A client that has sent nothing yet.
NoReq ==
    [kind |-> "none", pc |-> "new", model_size |-> "base", convert |-> FALSE,
     size |-> -1, n |-> 0, i |-> 0, temp_files |-> <<>>,
     created |-> {}, passed |-> {}, undeleted |-> {}, attempts |-> 0, tx |-> NoTx,
     results |-> <<>>, resp |-> NoResp, summary |-> NoSummary]

\* A JSONResponse without a 'result'.
Resp(status, success, error) ==
    [status |-> status, success |-> success, error |-> error, result |-> {}]

\* A /transcribe response that reports success whatever the transcription returned.
TranscribeResponseAlwaysOk(result) ==
    [status |-> 200, success |-> TRUE, error |-> "",
     result |-> {"processing_time", "file_info"}]

\* if result: ... else: ... of /transcribe; result is FALSE for None.
TranscribeResponse(result) ==
    IF result
    THEN [status |-> 200, success |-> TRUE, error |-> "",
          result |-> {"processing_time", "file_info"}]
    ELSE Resp(400, FALSE, "Transcription failed")

\* os.unlink inside safe_delete_file, for each file handed to it: ok[f] says
\* whether the deletion of f succeeds within the retries.
safe_delete_files(files, present, ok) == present \ {f \in files : ok[f]}

\* A finally block that deletes only the file that was transcribed last.
FinallyLastFile(temp_files) ==
    IF temp_files = <<>> THEN {} ELSE {temp_files[Len(temp_files)]}

\* The files the finally block of /transcribe iterates over.
FinallyFiles(temp_files) == Range(temp_files)

\* temp_files.append(path)
Register(temp_files, path) == Append(temp_files, path)

\* len(content) > 25 * 1024 * 1024
TooLarge(size) == size > SizeLimit

\* A limit that lets one more file through.
TooManyOffByOne(n) == n > MaxBatch + 1

\* len(audio_files) > 10
TooMany(n) == n > MaxBatch

\* whisper_stt.transcribe_audio(path, language, m) on the WhisperSTT state s.
\* completes: preprocessing and current_model.transcribe raise nothing (the
\* call returns None otherwise, as it does when there is no current model).
\* The whole call runs without an await.
WhisperTranscribe(s, m, ok, completes) ==
    LET loaded == IF m # s.model_size
                  THEN _load_model(s, m, ok)
                  ELSE [models |-> s.models, current_model |-> s.current_model,
                        model_size |-> s.model_size, calls |-> <<>>]
        result == completes /\ loaded.current_model # None
    IN  [stt |-> loaded,
         result |-> result,
         tx |-> IF result
                THEN [m |-> m, obj |-> loaded.current_model,
                      mobj |-> IF m \in ModelNames THEN loaded.models[m] ELSE None]
                ELSE NoTx,
         faults |-> Failures(loaded.calls) + (IF completes THEN 0 ELSE 1)]

SetSTT(t) ==
    /\ models' = t.stt.models
    /\ current_model' = t.stt.current_model
    /\ model_size' = t.stt.model_size
    /\ UNCHANGED <<loadArg, loadCalls>>

\* Client r sends its request.  Clients are interchangeable, so they are
\* numbered in the order their requests arrive.
Arrives(r) ==
    /\ r \in workload.clients
    /\ req[r].pc = "new"
    /\ \A q \in workload.clients : q < r => req[q].pc # "new"

\* whisper_stt = WhisperSTT(): __init__ ends with _load_model('base')
Construct ==
    /\ phase = "import"
    /\ \E ok \in LoadOutcomes("base", workload.budget - faults) :
         LET r == _load_model(InitialSTT, "base", ok) IN
         /\ faults + Failures(r.calls) <= workload.budget
         /\ models' = r.models
         /\ current_model' = r.current_model
         /\ model_size' = r.model_size
         /\ faults' = faults + Failures(r.calls)
    /\ phase' = "serving"
    /\ UNCHANGED <<loadArg, loadCalls, ncalls, call, workload, req, fs>>

\* ----------------------------------------------------------- /transcribe
\* The handler's return with its finally block: safe_delete_file on every
\* file of temp_files.  present: the temp files existing at that point.
Finish(r, rq, present, resp, nf) ==
    LET files == FinallyFiles(rq.temp_files) IN
    \E ok \in [files -> BOOLEAN] :
        LET f == nf + Cardinality({x \in files : ~ok[x]}) IN
        /\ faults + f <= workload.budget
        /\ faults' = faults + f
        /\ fs' = safe_delete_files(files, present, ok)
        /\ req' = [req EXCEPT ![r] = [rq EXCEPT !.pc = "done", !.resp = resp,
                                                !.passed = rq.passed \cup files,
                                                !.undeleted = {x \in files : ~ok[x]}]]

\* The call of whisper_stt.transcribe_audio and the response built from it.
TranscribeAndFinish(r, rq, present) ==
    \E ok \in LoadOutcomes(rq.model_size, workload.budget - faults), completes \in BOOLEAN :
        LET t == WhisperTranscribe(STT, rq.model_size, ok, completes)
            rq2 == [rq EXCEPT !.attempts = rq.attempts + 1, !.tx = t.tx]
        IN  /\ SetSTT(t)
            /\ Finish(r, rq2, present, TranscribeResponse(t.result), t.faults)

\* The request arrives: the form values are validated, then the handler
\* awaits audio_file.read().
TranscribeStart(r) ==
    /\ phase = "serving"
    /\ Arrives(r)
    /\ \E m \in workload.models, convert \in BOOLEAN :
         req' = [req EXCEPT ![r] =
                   [NoReq EXCEPT !.kind = "transcribe", !.pc = "read",
                                 !.model_size = IF m \notin ModelNames THEN "base" ELSE m,
                                 !.convert = convert]]
    /\ UNCHANGED <<sttVars, ncalls, call, phase, workload, fs, faults>>

\* audio_file.read() raises: the outer except answers 500.
TranscribeReadFails(r) ==
    /\ req[r].kind = "transcribe" /\ req[r].pc = "read"
    /\ Finish(r, req[r], fs, Resp(500, FALSE, "exception"), 1)
    /\ UNCHANGED <<sttVars, ncalls, call, phase, workload>>

\* The task is cancelled while it waits in audio_file.read() or in
\* asyncio.sleep: CancelledError passes both except clauses, the finally block
\* runs, no response is sent.
TranscribeCancelled(r) ==
    /\ req[r].kind = "transcribe" /\ req[r].pc \in {"read", "sleep"}
    /\ Finish(r, req[r], fs, NoResp, 1)
    /\ UNCHANGED <<sttVars, ncalls, call, phase, workload>>

\* From the return of audio_file.read() to the next await or the response.
TranscribeRead(r) ==
    /\ req[r].kind = "transcribe" /\ req[r].pc = "read"
    /\ \E size \in workload.sizes :
        LET rq0 == [req[r] EXCEPT !.size = size]
            upload == <<r, 0>>
            wav == <<r, 1>>
            rq1 == [rq0 EXCEPT !.temp_files = Register(rq0.temp_files, upload),
                               !.created = rq0.created \cup {upload}]
            rq2 == [rq1 EXCEPT !.temp_files = Register(rq1.temp_files, wav),
                               !.created = rq1.created \cup {wav}]
        IN
        IF TooLarge(size)
        THEN /\ Finish(r, rq0, fs, Resp(400, FALSE, "File too large"), 0)
             /\ UNCHANGED sttVars
        ELSE
          \* tempfile.mkstemp raises: no file, outer except
          \/ /\ Finish(r, rq0, fs, Resp(500, FALSE, "exception"), 1)
             /\ UNCHANGED sttVars
          \* tmp_file.write raises: inner except
          \/ /\ Finish(r, rq1, fs \cup {upload}, Resp(500, FALSE, "Processing failed"), 1)
             /\ UNCHANGED sttVars
          \* the second mkstemp raises: conversion except, no .wav created
          \/ /\ rq0.convert
             /\ Finish(r, rq1, fs \cup {upload},
                       Resp(400, FALSE, "Audio conversion failed"), 1)
             /\ UNCHANGED sttVars
          \* AudioSegment.from_file / export raises: conversion except
          \/ /\ rq0.convert
             /\ Finish(r, rq2, fs \cup {upload, wav},
                       Resp(400, FALSE, "Audio conversion failed"), 1)
             /\ UNCHANGED sttVars
          \* converted: await asyncio.sleep(0.1)
          \/ /\ rq0.convert
             /\ req' = [req EXCEPT ![r] = [rq2 EXCEPT !.pc = "sleep"]]
             /\ fs' = fs \cup {upload, wav}
             /\ UNCHANGED <<sttVars, faults>>
          \* .wav / .flac: transcribed as uploaded
          \/ /\ ~rq0.convert
             /\ TranscribeAndFinish(r, rq1, fs \cup {upload})
    /\ UNCHANGED <<ncalls, call, phase, workload>>

\* After the sleep: final_audio_path = wav_path, then the transcription.
TranscribeSleep(r) ==
    /\ req[r].kind = "transcribe" /\ req[r].pc = "sleep"
    /\ TranscribeAndFinish(r, req[r], fs)
    /\ UNCHANGED <<ncalls, call, phase, workload>>

\* ------------------------------------------------------ /batch-transcribe
Count(results, b) == Cardinality({k \in 1..Len(results) : results[k].success = b})

\* The summary and the response after the loop.
BatchDone(rq) ==
    LET successful == Count(rq.results, TRUE) IN
    [rq EXCEPT !.pc = "done",
               !.resp = [status |-> 200, success |-> TRUE, error |-> "",
                         result |-> {"results", "summary"}],
               !.summary = [total |-> rq.n, successful |-> successful,
                            failed |-> rq.n - successful]]

\* The next iteration up to its await audio_file.read(), or the end.
BatchNext(rq) ==
    IF rq.i < rq.n THEN [rq EXCEPT !.pc = "read", !.temp_files = <<>>]
    ELSE BatchDone(rq)

Entry(success, i) == [success |-> success, index |-> i]

\* An except clause that appends nothing.
ExceptEntryMissing(results, i) == results

\* except Exception: results.append({'success': False, ...})
ExceptEntry(results, i) == Append(results, Entry(FALSE, i))

\* The request arrives with n files.
BatchStart(r) ==
    /\ phase = "serving"
    /\ Arrives(r)
    /\ \E m \in workload.models, n \in workload.batchSizes :
         LET rq == [NoReq EXCEPT !.kind = "batch", !.model_size = m, !.n = n] IN
         req' = [req EXCEPT ![r] =
                   IF TooMany(n)
                   THEN [rq EXCEPT !.pc = "done",
                                   !.resp = Resp(400, FALSE, "Too many files")]
                   ELSE BatchNext(rq)]
    /\ UNCHANGED <<sttVars, ncalls, call, phase, workload, fs, faults>>

\* File i raises before its temp file exists (audio_file.read, splitext or
\* mkstemp): the except appends a failure entry.
BatchFileFails(r) ==
    /\ req[r].kind = "batch" /\ req[r].pc = "read"
    /\ faults < workload.budget
    /\ faults' = faults + 1
    /\ LET rq == req[r] IN
       req' = [req EXCEPT ![r] =
                 BatchNext([rq EXCEPT !.results = ExceptEntry(rq.results, rq.i),
                                      !.i = rq.i + 1])]
    /\ UNCHANGED <<sttVars, ncalls, call, phase, workload, fs>>

\* File i raises while its content is written: the temp file exists, the
\* except appends a failure entry, the cleanup loop is skipped.
BatchWriteFails(r) ==
    /\ req[r].kind = "batch" /\ req[r].pc = "read"
    /\ faults < workload.budget
    /\ faults' = faults + 1
    /\ LET rq == req[r]
           path == <<r, rq.i>>
       IN  /\ req' = [req EXCEPT ![r] =
                        BatchNext([rq EXCEPT !.temp_files = Register(<<>>, path),
                                             !.created = rq.created \cup {path},
                                             !.results = ExceptEntry(rq.results, rq.i),
                                             !.i = rq.i + 1])]
           /\ fs' = fs \cup {path}
    /\ UNCHANGED <<sttVars, ncalls, call, phase, workload>>

\* File i is written and transcribed; its entry is appended and its temp
\* file handed to safe_delete_file.
BatchFile(r) ==
    /\ req[r].kind = "batch" /\ req[r].pc = "read"
    /\ LET rq == req[r]
           path == <<r, rq.i>>
       IN  \E ok \in LoadOutcomes(rq.model_size, workload.budget - faults),
              completes \in BOOLEAN, deleted \in BOOLEAN :
             LET t == WhisperTranscribe(STT, rq.model_size, ok, completes)
                 f == t.faults + (IF deleted THEN 0 ELSE 1)
             IN  /\ faults + f <= workload.budget
                 /\ faults' = faults + f
                 /\ SetSTT(t)
                 /\ fs' = safe_delete_files({path}, fs \cup {path}, [x \in {path} |-> deleted])
                 /\ req' = [req EXCEPT ![r] =
                        BatchNext([rq EXCEPT !.temp_files = Register(<<>>, path),
                                             !.created = rq.created \cup {path},
                                             !.passed = rq.passed \cup {path},
                                             !.undeleted = rq.undeleted \cup
                                                 (IF deleted THEN {} ELSE {path}),
                                             !.attempts = rq.attempts + 1,
                                             !.tx = t.tx,
                                             !.results = Append(rq.results, Entry(t.result, rq.i)),
                                             !.i = rq.i + 1])]
    /\ UNCHANGED <<ncalls, call, phase, workload>>

\* ----------------------------------------------------------------- Spec
\* One client; batches of every size up to one more than the limit.
InitServer ==
    /\ models = InitialSTT.models
    /\ current_model = InitialSTT.current_model
    /\ model_size = InitialSTT.model_size
    /\ loadArg = "base"
    /\ loadCalls = <<>>
    /\ ncalls = 0
    /\ call = NoCall
    /\ phase = "import"
    /\ req = [r \in Clients |-> NoReq]
    /\ fs = {}
    /\ faults = 0

Init ==
    /\ InitServer
    /\ workload = [clients |-> {1}, models |-> ReqModels, sizes |-> Sizes,
                   batchSizes |-> 0..(MaxBatch + 1), budget |-> MaxFaults]

Next ==
    \/ Construct
    \/ \E r \in Clients : TranscribeStart(r)
    \/ \E r \in Clients : TranscribeReadFails(r)
    \/ \E r \in Clients : TranscribeCancelled(r)
    \/ \E r \in Clients : TranscribeRead(r)
    \/ \E r \in Clients : TranscribeSleep(r)
    \/ \E r \in Clients : BatchStart(r)
    \/ \E r \in Clients : BatchFileFails(r)
    \/ \E r \in Clients : BatchWriteFails(r)
    \/ \E r \in Clients : BatchFile(r)

Spec == Init /\ [][Next]_vars

\* Concurrent clients on the one event loop, with small batches.
InitConc ==
    /\ InitServer
    /\ workload = [clients |-> Clients, models |-> ConcModels, sizes |-> ConcSizes,
                   batchSizes |-> {MaxConcFiles},
                   budget |-> MaxConcFaults]

SpecConc == InitConc /\ [][Next]_vars

\* ------------------------------------------------------------- SpecLoad
\* Repeated _load_model calls, the first one the constructor's.
LoadModelCall ==
    /\ ncalls < MaxCalls
    /\ \E requested \in (IF ncalls = 0 THEN {"base"} ELSE AnyModel) :
         \E ok \in LoadOutcomes(requested, Len(fallback_models) + 1) :
            LET r == _load_model(STT, requested, ok) IN
            /\ models' = r.models
            /\ current_model' = r.current_model
            /\ model_size' = r.model_size
            /\ loadArg' = requested
            /\ loadCalls' = r.calls
    /\ ncalls' = ncalls + 1
    /\ UNCHANGED <<call, srvVars>>

InitIdle ==
    /\ phase = "import"
    /\ workload = [clients |-> {}, models |-> {}, sizes |-> {}, batchSizes |-> {},
                   budget |-> 0]
    /\ req = [r \in Clients |-> NoReq]
    /\ fs = {}
    /\ faults = 0

InitLoad ==
    /\ models = InitialSTT.models
    /\ current_model = InitialSTT.current_model
    /\ model_size = InitialSTT.model_size
    /\ loadArg = "base"
    /\ loadCalls = <<>>
    /\ ncalls = 0
    /\ call = NoCall
    /\ InitIdle

NextLoad == LoadModelCall

SpecLoad == InitLoad /\ [][NextLoad]_vars

\* ---------------------------------------------------------- SpecOptions
\* One option selection for every model_size and language argument.
SelectOptions ==
    /\ ~call.done
    /\ LET language == EffectiveLanguage(call.language, call.detected) IN
       call' = [call EXCEPT !.done = TRUE,
                            !.effective = language,
                            !.options = Options(call.model_size, language)]
    /\ UNCHANGED <<sttVars, ncalls, srvVars>>

InitOptions ==
    /\ models = InitialSTT.models
    /\ current_model = InitialSTT.current_model
    /\ model_size = InitialSTT.model_size
    /\ loadArg = "base"
    /\ loadCalls = <<>>
    /\ ncalls = 0
    /\ InitIdle
    /\ \E m \in AnyModel, l \in LanguageArgs, d \in DetectedLanguages :
         call = [NoCall EXCEPT !.model_size = m, !.language = l, !.detected = d]

NextOptions == SelectOptions

SpecOptions == InitOptions /\ [][NextOptions]_vars

\* ================================================================ claims

\* C1: every /transcribe upload whose content length is not less than
\* 25*1024*1024 bytes is answered 400 'File too large' with success False,
\* and no temp file is created and no transcription attempted for it.
C1_NotLessThanLimitRejected ==
    \A r \in Clients :
        (req[r].kind = "transcribe" /\ req[r].size >= 25 * 1024 * 1024) =>
            /\ req[r].resp.status = 400
            /\ ~req[r].resp.success
            /\ req[r].resp.error = "File too large"
            /\ req[r].created = {}
            /\ req[r].attempts = 0

\* C2: when a /transcribe handler has finished, on whatever path, every temp
\* file it created has been passed to safe_delete_file, and if no deletion
\* failed none of them exists any more.
C2_TempFilesCleaned ==
    \A r \in Clients :
        (req[r].kind = "transcribe" /\ req[r].pc = "done") =>
            /\ req[r].created \subseteq req[r].passed
            /\ (req[r].undeleted = {} => req[r].created \cap fs = {})

\* C2 witness: a conversion failure after both temp files were created, both
\* handed to safe_delete_file and gone.
C2_Witness ==
    \E r \in Clients :
        /\ req[r].kind = "transcribe" /\ req[r].pc = "done"
        /\ req[r].resp.error = "Audio conversion failed"
        /\ req[r].created = {<<r, 0>>, <<r, 1>>}
        /\ req[r].passed = req[r].created
        /\ req[r].created \cap fs = {}

\* C3: a /transcribe response has success True (status 200, with a result
\* carrying processing_time and file_info) exactly when
\* WhisperSTT.transcribe_audio returned a result; every other response has
\* success False with status 400 (too large, conversion failed, transcription
\* returned None) or 500 (an exception), and no transcription is attempted
\* after a too-large rejection or a conversion failure.
C3_SuccessIffResult ==
    \A r \in Clients :
        (req[r].kind = "transcribe" /\ req[r].pc = "done" /\ req[r].resp.status # 0) =>
            LET resp == req[r].resp IN
            /\ resp.success <=> (req[r].tx.obj # 0)
            /\ resp.success =>
                  /\ resp.status = 200
                  /\ {"processing_time", "file_info"} \subseteq resp.result
                  /\ req[r].attempts = 1
            /\ ~resp.success =>
                  \/ /\ resp.status = 400
                     /\ resp.error \in {"File too large", "Audio conversion failed",
                                        "Transcription failed"}
                  \/ /\ resp.status = 500
                     /\ resp.error \in {"Processing failed", "exception"}
            /\ resp.error \in {"File too large", "Audio conversion failed"} =>
                  req[r].attempts = 0
            /\ resp.error = "Transcription failed" => req[r].attempts = 1

\* C3 witness: a converted upload answered with success True.
C3_Witness ==
    \E r \in Clients :
        /\ req[r].kind = "transcribe" /\ req[r].pc = "done"
        /\ req[r].convert
        /\ req[r].resp.success /\ req[r].resp.status = 200
        /\ req[r].tx.obj # 0

\* C4, the state part: a batch of more than 10 files is answered 400 'Too
\* many files' and none of its files is read, written or transcribed; a batch
\* of 10 or fewer is processed file by file and answered 200.
C4_RejectedOrProcessed ==
    \A r \in Clients :
        req[r].kind = "batch" =>
            IF req[r].n > 10
            THEN /\ req[r].pc = "done"
                 /\ req[r].resp.status = 400
                 /\ ~req[r].resp.success
                 /\ req[r].resp.error = "Too many files"
                 /\ req[r].i = 0 /\ req[r].results = <<>>
                 /\ req[r].created = {} /\ req[r].attempts = 0
            ELSE /\ req[r].pc \in {"read", "done"}
                 /\ req[r].pc = "done" =>
                       /\ req[r].resp.status = 200
                       /\ req[r].i = req[r].n

\* C4, the step part: the arrival of a batch of more than 10 files changes
\* neither the loaded models, the current model, nor the temp files.
C4_RejectionChangesNothing ==
    \A r \in Clients :
        (req[r].pc = "new" /\ req'[r].kind = "batch" /\ req'[r].n > 10) =>
            UNCHANGED <<models, current_model, model_size, fs>>

\* C4: /batch-transcribe allows at most 10 files per batch.
C4_BatchLimit == [](C4_RejectedOrProcessed) /\ [][C4_RejectionChangesNothing]_vars

\* C4 witness: a batch of 11 files, rejected.
C4_Witness ==
    \E r \in Clients :
        /\ req[r].kind = "batch" /\ req[r].n = 11 /\ req[r].pc = "done"
        /\ req[r].resp.error = "Too many files"

\* C5: the response to a batch of at most 10 files has one entry per file in
\* upload order, total = number of files, successful = number of success
\* entries, failed = total - successful = number of failure entries.
C5_OneEntryPerFile ==
    \A r \in Clients :
        (req[r].kind = "batch" /\ req[r].pc = "done" /\ req[r].n <= 10) =>
            LET results == req[r].results
                summary == req[r].summary
                good == {k \in 1..Len(results) : results[k].success}
                bad == {k \in 1..Len(results) : ~results[k].success}
            IN  /\ Len(results) = req[r].n
                /\ \A k \in 1..Len(results) : results[k].index = k - 1
                /\ summary.total = req[r].n
                /\ summary.successful = Cardinality(good)
                /\ summary.failed = summary.total - summary.successful
                /\ summary.failed = Cardinality(bad)

\* C5 witness: a full batch with successes, a file that raised before its
\* temp file existed and one that raised after.
C5_Witness ==
    \E r \in Clients :
        /\ req[r].kind = "batch" /\ req[r].pc = "done" /\ req[r].n = 10
        /\ req[r].summary.successful = 8 /\ req[r].summary.failed = 2
        /\ req[r].attempts = 8
        /\ Cardinality(req[r].created) = 9

\* C6: _load_model treats an unknown name as 'base'; reuses an already
\* loaded model without calling the loader; loads a model that is not loaded;
\* and when that load fails tries 'base', 'tiny', 'small' in that order,
\* skipping the requested name, the first that loads becoming current_model
\* with model_size set to its name.
C6_LoadModelStep ==
    (ncalls' = ncalls + 1) =>
        LET name == IF loadArg' \in ModelNames THEN loadArg' ELSE "base"
            order == IF name = "base" THEN <<"tiny", "small">>
                     ELSE IF name = "tiny" THEN <<"base", "small">>
                     ELSE IF name = "small" THEN <<"base", "tiny">>
                     ELSE <<"base", "tiny", "small">>
            calls == loadCalls'
        IN
        IF models[name] # 0
        THEN /\ calls = <<>>
             /\ models' = models
             /\ current_model' = models[name]
             /\ model_size' = name
        ELSE /\ Len(calls) >= 1
             /\ calls[1][1] = name
             /\ IF calls[1][2]
                THEN /\ Len(calls) = 1
                     /\ model_size' = name
                     /\ models'[name] # 0
                     /\ current_model' = models'[name]
                ELSE LET tried == [k \in 1..(Len(calls) - 1) |-> calls[k + 1]]
                         last == Len(tried)
                     IN  /\ last <= Len(order)
                         /\ \A k \in 1..last : tried[k][1] = order[k]
                         /\ \A k \in 1..(last - 1) : ~tried[k][2]
                         /\ last < Len(order) => (last >= 1 /\ tried[last][2])
                         /\ (last >= 1 /\ tried[last][2]) =>
                               /\ model_size' = tried[last][1]
                               /\ models'[model_size'] # 0
                               /\ current_model' = models'[model_size']
                         /\ (last = Len(order) /\ ~tried[last][2]) =>
                               /\ model_size' = name
                               /\ models' = models

C6_LoadModel == [][C6_LoadModelStep]_vars

\* C6 witness: 'tiny' was requested and failed, 'base' failed, 'small' loaded.
C6_Witness ==
    /\ loadArg = "tiny"
    /\ loadCalls = <<<<"tiny", FALSE>>, <<"base", FALSE>>, <<"small", TRUE>>>>
    /\ model_size = "small"
    /\ current_model # 0
    /\ current_model = models["small"]

\* C7: beam_size = best_of = 5 for the large models, 3 for medium/medium.en,
\* 1 otherwise; no_speech_threshold is 0.2 for 'ar', 0.3 for 'id', whatever
\* the model, and the tier default (0.3 / 0.4 / 0.5) otherwise;
\* compression_ratio_threshold is 3.0 for 'ar', 2.8 for 'id', else 2.4; the
\* language never raises no_speech_threshold above the tier default.
C7_DecodingOptions ==
    call.done =>
        LET m == call.model_size
            l == call.effective
            o == call.options
            large == m \in {"large", "large-v1", "large-v2", "large-v3"}
            medium == m \in {"medium", "medium.en"}
            default == IF large THEN 3 ELSE IF medium THEN 4 ELSE 5
        IN  /\ l = (IF call.language \in {"None", "auto"} THEN call.detected
                    ELSE call.language)
            /\ o.beam_size = (IF large THEN 5 ELSE IF medium THEN 3 ELSE 1)
            /\ o.best_of = o.beam_size
            /\ o.no_speech_threshold =
                  (IF l = "ar" THEN 2 ELSE IF l = "id" THEN 3 ELSE default)
            /\ o.compression_ratio_threshold =
                  (IF l = "ar" THEN 30 ELSE IF l = "id" THEN 28 ELSE 24)
            /\ o.no_speech_threshold <= default

\* C7 witness: a medium model with Arabic detected: 0.2 instead of 0.4.
C7_Witness ==
    /\ call.done
    /\ call.model_size = "medium" /\ call.language = "auto" /\ call.detected = "ar"
    /\ call.options.no_speech_threshold = 2
    /\ call.options.beam_size = 3

\* C8: in a batch, the temp file created for a file has been passed to
\* safe_delete_file before the next file is processed and before the
\* response is returned, on every path for that file.
C8_BatchFileCleaned ==
    \A r \in Clients :
        req[r].kind = "batch" =>
            \A f \in req[r].created : f[2] < req[r].i => f \in req[r].passed

\* C9: under every interleaving of the handlers at their await points,
\* current_model = models[model_size], and a request's transcription is
\* performed by models[m] for the model_size m it passed, when m is a known
\* model that is loaded.
C9_OwnModelTranscribes ==
    /\ current_model = models[model_size]
    /\ \A r \in Clients :
          LET tx == req[r].tx IN
          (tx.obj # 0 /\ tx.m \in ModelNames /\ tx.mobj # 0) => tx.obj = tx.mobj

\* C9 witness: the client that arrived first transcribed last, with its own
\* model, after the other client's request had switched to another model
\* while the first one waited.
C9_Witness ==
    /\ req[1].pc = "done" /\ req[2].pc = "done"
    /\ req[1].tx.obj # 0 /\ req[2].tx.obj # 0
    /\ req[1].tx.m # req[2].tx.m
    /\ req[1].tx.obj = req[1].tx.mobj /\ req[2].tx.obj = req[2].tx.mobj
    /\ req[1].tx.obj # req[2].tx.obj
    /\ model_size = req[1].tx.m
    /\ current_model = req[1].tx.obj
====
